---- MODULE Spec2Model ----
(***************************************************************************)
(* Skeletal animation model loader and evaluator (class Model, model.hpp)  *)
(* and its use by the application (main.cpp).                              *)
(*                                                                         *)
(* Numbers.  Key times, tick rates and seconds are exact naturals; the     *)
(* one floating-point effect that is kept is fmod by a zero duration,      *)
(* which yields NaN.  Interpolated values are exact rationals <<n, d>>.    *)
(*                                                                         *)
(* Matrices.  A glm::mat4 is a word of atoms <<kind, a, b, n, d>>; the     *)
(* product is concatenation, the identity the empty word, and an inverse   *)
(* atom cancels against the atom it inverts.  Two words that are equal     *)
(* denote equal matrices whatever the atoms stand for.  mat4(0.0f) is the  *)
(* absorbing word Zero.                                                    *)
(***************************************************************************)
EXTENDS Integers, Sequences, FiniteSets, TLC

(* ------------------------------ bounds --------------------------------- *)

\* meshes of one scene (aiScene::mNumMeshes)
MaxMeshes == 2
\* bones of one mesh (aiMesh::mNumBones)
MaxMeshBones == 2
\* largest key timestamp, in ticks
MaxKeyTime == 2
\* keys of one track
MaxKeys == 2
\* largest time in seconds handed to SetBoneTransformations
MaxSeconds == 3
\* skinning records applied to the vertices of one mesh (SpecSkin)
MaxRecords == 5
\* keys of one track and largest key timestamp of the tracks handed to the
\* interpolation functions on their own (SpecTrack)
MaxTrackKeys == 3
MaxTrackTime == 3
\* texture references of the materials of one scene (SpecTex)
MaxTextures == 3
\* uploads of gBones captured in one run (SpecReplay)
MaxUploads == 3
\* presses of key 1 that ProcessInput accepts in one run (SpecApp)
MaxPresses == 3

(* ------------------------- program constants ---------------------------- *)

NUM_BONES_PER_VERTEX == 4
\* the tick rate used when a clip's mTicksPerSecond is 0
DefaultTicksPerSecond == 25
\* fmod(x, 0.0): not a number; every comparison with it is false
NaN == -1
\* unsigned int has 32 bits: a value is kept as << high half, low half >>,
\* each half below Half
Half == 65536

(* --------------------------- small helpers ------------------------------ *)

Front(s) == SubSeq(s, 1, Len(s) - 1)

Last(s) == s[Len(s)]

Abs(x) == IF x < 0 THEN -x ELSE x

RECURSIVE GCD(_, _)
GCD(a, b) == IF b = 0 THEN a ELSE GCD(b, a % b)

\* the rational n/d (d # 0) in lowest terms with a positive denominator
Rat(n, d) ==
    LET g == GCD(Abs(n), Abs(d))
        s == IF d < 0 THEN -1 ELSE 1
    IN  << (s * n) \div g, (s * d) \div g >>

\* sequences over S of length lo..hi
SeqsOf(S, lo, hi) == UNION { [1..k -> S] : k \in lo..hi }

\* unsigned int of main.cpp and Model: the value x, x - 1 and x + 1
\* modulo 2^32, and the comparison
Uint(x) == << (x \div Half) % Half, x % Half >>

UintValue(u) == u[1] * Half + u[2]

UintMinusOne(u) ==
    IF u[2] > 0 THEN << u[1], u[2] - 1 >>
    ELSE IF u[1] > 0 THEN << u[1] - 1, Half - 1 >>
    ELSE << Half - 1, Half - 1 >>

UintPlusOne(u) ==
    IF u[2] < Half - 1 THEN << u[1], u[2] + 1 >>
    ELSE IF u[1] < Half - 1 THEN << u[1] + 1, 0 >>
    ELSE << 0, 0 >>

UintLess(u, v) == u[1] < v[1] \/ (u[1] = v[1] /\ u[2] < v[2])

(* ------------------------------ matrices -------------------------------- *)

\* glm::mat4(1.0f)
Identity == << >>

ZeroAtom == << "Z", 0, 0, 0, 0 >>

\* glm::mat4(0.0f)
Zero == << ZeroAtom >>

\* mat4Convert(node->mTransformation) of node number n
NodeM(n) == << << "N", n, 0, 0, 0 >> >>

\* glm::inverse(mat4Convert(node->mTransformation)) of node number n
InverseM(n) == << << "I", n, 0, 0, 0 >> >>

\* mat4Convert(mesh->mBones[i]->mOffsetMatrix): offset matrix number k
OffsetM(k) == << << "O", k, 0, 0, 0 >> >>

\* glm::translate(mat4(1), v), glm::scale(mat4(1), v): v a rational
TranslateM(v) == << << "T", 0, 0, v[1], v[2] >> >>

ScaleM(v) == << << "S", 0, 0, v[1], v[2] >> >>

\* glm::toMat4 of the rotation q = <<from, to, n, d>>: the normalised
\* spherical interpolation from key value `from` to key value `to` at n/d
RotateM(q) == << << "R", q[1], q[2], q[3], q[4] >> >>

Cancels(x, y) ==
    /\ x[2] = y[2]
    /\ \/ x[1] = "I" /\ y[1] = "N"
       \/ x[1] = "N" /\ y[1] = "I"

RECURSIVE Join(_, _)
Join(A, B) ==
    IF A # << >> /\ B # << >> /\ Cancels(Last(A), Head(B))
    THEN Join(Front(A), Tail(B))
    ELSE A \o B

\* operator* of glm::mat4
Mul(A, B) == IF A = Zero \/ B = Zero THEN Zero ELSE Join(A, B)

(* ------------------- bone registry and mesh binding --------------------- *)

\* struct BoneMatrix and its constructor
BoneMatrix == [ BoneOffset |-> Zero, FinalTransformation |-> Zero ]

\* struct Vertex as processMesh leaves it before the bone loop: the weights
\* are zeroed, BoneIDs is not initialised and holds the indeterminate u
NewVertex(u) ==
    [ BoneIDs     |-> [g \in 1..NUM_BONES_PER_VERTEX |-> u],
      BoneWeights |-> [g \in 1..NUM_BONES_PER_VERTEX |-> 0] ]

\* the registry part of Model: bonesCount, boneMapping, boneMatrices
Registry(n, map, mats) ==
    [ bonesCount |-> n, boneMapping |-> map, boneMatrices |-> mats ]

\* boneMapping.find(name) != boneMapping.end()
Bound(map, name) == name \in DOMAIN map

\* boneMapping[boneName] = boneIndex
MapPut(map, name, idx) ==
    [ k \in DOMAIN map \cup {name} |-> IF k = name THEN idx ELSE map[k] ]

\* boneMatrices[boneIndex].BoneOffset = offset, on the registry that already
\* holds the new BoneMatrix (vector index boneIndex is sequence index + 1)
SetOffset(mats, boneIndex, offset) ==
    [ mats EXCEPT ![boneIndex + 1].BoneOffset = offset ]

\* faulty binding: no lookup, every bone met gets a fresh index
BindBoneAlwaysNew(reg, bone) ==
    [ boneIndex |-> reg.bonesCount,
      reg |-> Registry(reg.bonesCount + 1,
                       MapPut(reg.boneMapping, bone.mName, reg.bonesCount),
                       SetOffset(Append(reg.boneMatrices, BoneMatrix),
                                 reg.bonesCount, bone.mOffsetMatrix)) ]

\* faulty binding: a bone already bound has its offset overwritten
BindBoneLastOffset(reg, bone) ==
    IF ~Bound(reg.boneMapping, bone.mName)
    THEN [ boneIndex |-> reg.bonesCount,
           reg |-> Registry(reg.bonesCount + 1,
                            MapPut(reg.boneMapping, bone.mName, reg.bonesCount),
                            SetOffset(Append(reg.boneMatrices, BoneMatrix),
                                      reg.bonesCount, bone.mOffsetMatrix)) ]
    ELSE [ boneIndex |-> reg.boneMapping[bone.mName],
           reg |-> [ reg EXCEPT !.boneMatrices =
                        SetOffset(@, reg.boneMapping[bone.mName],
                                  bone.mOffsetMatrix) ] ]

\* processMesh, lines 187-202: the index of a bone and the registry after it
BindBone(reg, bone) ==
    IF ~Bound(reg.boneMapping, bone.mName)
    THEN LET boneIndex == reg.bonesCount
         IN  [ boneIndex |-> boneIndex,
               reg |-> Registry(reg.bonesCount + 1,
                                MapPut(reg.boneMapping, bone.mName, boneIndex),
                                SetOffset(Append(reg.boneMatrices, BoneMatrix),
                                          boneIndex, bone.mOffsetMatrix)) ]
    ELSE [ boneIndex |-> reg.boneMapping[bone.mName], reg |-> reg ]

\* a record <<bone index, weight>> that the scan of line 211 will not take
\* for an empty slot once it is stored
NonZeroWeight(record) == record[2] # 0

\* the slots g = 0 .. NUM_BONES_PER_VERTEX - 1 whose weight compares equal to 0.0
EmptySlots(vertex) ==
    { g \in 1..NUM_BONES_PER_VERTEX :
        g \in DOMAIN vertex.BoneWeights /\ vertex.BoneWeights[g] = 0 }

\* faulty scan: it stops at the highest empty slot
LastEmpty(vertex) ==
    CHOOSE g \in EmptySlots(vertex) : \A h \in EmptySlots(vertex) : g >= h

\* the slot the scan of lines 209-217 stops at: the lowest empty one
FirstEmpty(vertex) ==
    CHOOSE g \in EmptySlots(vertex) : \A h \in EmptySlots(vertex) : g <= h

\* faulty store: a record that finds no empty slot gets a slot of its own
StoreWeightGrowing(vertex, boneIndex, weight) ==
    IF EmptySlots(vertex) = {}
    THEN [ BoneIDs |-> Append(vertex.BoneIDs, boneIndex),
           BoneWeights |-> Append(vertex.BoneWeights, weight) ]
    ELSE [ vertex EXCEPT !.BoneIDs[FirstEmpty(vertex)] = boneIndex,
                         !.BoneWeights[FirstEmpty(vertex)] = weight ]

\* processMesh, lines 209-217: one skinning record on one vertex
StoreWeight(vertex, boneIndex, weight) ==
    IF EmptySlots(vertex) = {}
    THEN vertex
    ELSE LET g == FirstEmpty(vertex)
         IN  [ vertex EXCEPT !.BoneIDs[g] = boneIndex,
                             !.BoneWeights[g] = weight ]

\* processMesh, lines 204-218: the weights of one bone from the j-th on
RECURSIVE StoreWeights(_, _, _, _)
StoreWeights(vertices, boneIndex, weights, j) ==
    IF j > Len(weights)
    THEN vertices
    ELSE LET vertexID == weights[j].mVertexId
         IN  StoreWeights(
                 [ vertices EXCEPT ![vertexID + 1] =
                       StoreWeight(vertices[vertexID + 1], boneIndex,
                                   weights[j].mWeight) ],
                 boneIndex, weights, j + 1)

\* processMesh, lines 185-219: the bones of one mesh from the i-th on;
\* st = [reg, vertices, boneIndex], boneIndex the values the local variable
\* boneIndex took, one per bone
RECURSIVE ProcessBones(_, _, _)
ProcessBones(st, bones, i) ==
    IF i > Len(bones)
    THEN st
    ELSE LET b == BindBone(st.reg, bones[i])
         IN  ProcessBones(
                 [ reg |-> b.reg,
                   vertices |-> StoreWeights(st.vertices, b.boneIndex,
                                             bones[i].mWeights, 1),
                   boneIndex |-> Append(st.boneIndex, b.boneIndex) ],
                 bones, i + 1)

\* processMesh: the vertex loop, then the bone loop
ProcessMeshResult(reg, mesh, u) ==
    ProcessBones([ reg |-> reg,
                   vertices |-> [v \in 1..mesh.mNumVertices |-> NewVertex(u)],
                   boneIndex |-> << >> ],
                 mesh.mBones, 1)

(* ------------------------------- scenes --------------------------------- *)

BoneNames == { "a", "b" }

\* the node trees: node 1 is the root, parent 0 is "no parent", and a parent
\* precedes its children; the transformation of node n is NodeM(n)
Node(name, parent) == [ mName |-> name, parent |-> parent ]

ChainTree == << Node("root", 0), Node("a", 1), Node("b", 2) >>

ForkTree == << Node("root", 0), Node("a", 1), Node("b", 1) >>

\* two nodes carry the name "a", none carries "b"
TwinTree == << Node("root", 0), Node("a", 1), Node("a", 2) >>

Trees == { ChainTree, ForkTree, TwinTree }

\* node->mChildren of node n, in order
RECURSIVE ChildrenFrom(_, _, _)
ChildrenFrom(nodes, n, j) ==
    IF j > Len(nodes) THEN << >>
    ELSE IF nodes[j].parent = n THEN << j >> \o ChildrenFrom(nodes, n, j + 1)
    ELSE ChildrenFrom(nodes, n, j + 1)

Children(nodes, n) == ChildrenFrom(nodes, n, 1)

\* strictly increasing key timestamps of one track: 1..MaxKeys keys
Increasing(ts) ==
    \A i \in 1..(Len(ts) - 1) : ts[i] < ts[i + 1]

TimeLists == { ts \in SeqsOf(0..MaxKeyTime, 1, MaxKeys) : Increasing(ts) }

\* the keys of one track: key i has the timestamp times[i] and the value
\* base + 2 * (i - 1), so the values of a track and of the three tracks of a
\* channel all differ
Keys(times, base) ==
    [ i \in 1..Len(times) |->
        [ mTime |-> times[i], mValue |-> base + 2 * (i - 1) ] ]

\* aiNodeAnim
Channel(name, p, r, s) ==
    [ mNodeName      |-> name,
      mPositionKeys  |-> Keys(p, 1),
      mRotationKeys  |-> Keys(r, 11),
      mScalingKeys   |-> Keys(s, 21) ]

\* aiAnimation::mTicksPerSecond
TickRates == { 0, 1 }

\* the rotation and scaling timestamps tried beside the position
\* timestamps p: the same; one key; a track that ends first; one that starts
\* after time 0
OtherTimeLists(p) == { p, << 0 >>, << 0, 1 >>, << 1, 2 >> }

\* aiAnimation::mChannels: none; one channel for node "a"; or a channel for
\* "a" whose position track fixes the duration and a channel for "b"
ChannelLists ==
    { << >> }
    \cup UNION { { << Channel("a", p, r, r) >> : r \in OtherTimeLists(p) } :
                   p \in TimeLists }
    \cup { << Channel("a", p, p, p), Channel("b", q, q, q) >> :
             p \in { << 0 >>, << 0, MaxKeyTime >> }, q \in TimeLists }

\* aiAnimation
Clip(rate, channels) == [ mTicksPerSecond |-> rate, mChannels |-> channels ]

Clips == { Clip(rate, cs) : rate \in TickRates, cs \in ChannelLists }

\* a second clip with its own rate and its own duration
OtherClip == Clip(2, << Channel("b", << 0, 1 >>, << 0, 1 >>, << 0, 1 >>) >>)

\* a clip whose mTicksPerSecond is 0
RateZeroClip == Clip(0, << Channel("a", << 0, 2 >>, << 0, 2 >>, << 0, 2 >>) >>)

\* aiScene::mAnimations
ClipLists ==
    { << >> } \cup { << c >> : c \in Clips } \cup { << c, OtherClip >> : c \in Clips }
    \cup { << OtherClip, RateZeroClip >> }

\* const aiScene*: nullptr, or the imported scene
NullScene == [ null |-> TRUE, nodes |-> << >>, mAnimations |-> << >> ]

Scene(nodes, clips) == [ null |-> FALSE, nodes |-> nodes, mAnimations |-> clips ]

Scenes == { Scene(t, cl) : t \in Trees, cl \in ClipLists }

(* ------------------------------ evaluator ------------------------------- *)

\* operator< on floats: false when either side is NaN
FLess(x, y) == x # NaN /\ y # NaN /\ x < y

\* fmod(x, y) for x >= 0, y >= 0
FMod(x, y) == IF y = 0 THEN NaN ELSE x % y

\* the loop of findPosition / findRotation / findScaling from i on (i counts
\* from 0 as in the code); falling out of the loop reaches assert(0)
RECURSIVE ScanKeys(_, _, _)
ScanKeys(animationTime, keys, i) ==
    IF i >= Len(keys) - 1
    THEN [ fail |-> "assert(0)", index |-> 0 ]
    ELSE IF FLess(animationTime, keys[i + 2].mTime)
         THEN [ fail |-> "none", index |-> i ]
         ELSE ScanKeys(animationTime, keys, i + 1)

findPosition(animationTime, nodeAnim) ==
    ScanKeys(animationTime, nodeAnim.mPositionKeys, 0)

\* faulty findRotation: it scans the position keys
findRotationInPositions(animationTime, nodeAnim) ==
    ScanKeys(animationTime, nodeAnim.mPositionKeys, 0)

findRotation(animationTime, nodeAnim) ==
    ScanKeys(animationTime, nodeAnim.mRotationKeys, 0)

findScaling(animationTime, nodeAnim) ==
    ScanKeys(animationTime, nodeAnim.mScalingKeys, 0)

\* faulty interpolation: the start value, whatever the factor
LerpStart(start, end, n, d) == Rat(start, 1)

\* start + factor * (end - start) with factor = n/d
Lerp(start, end, n, d) == Rat(start * d + n * (end - start), d)

\* aiQuaternion::Interpolate followed by Normalize on unit key values: the
\* start value itself at factor 0, else the point n/d of the arc
Slerp(start, end, n, d) ==
    IF n = 0 THEN << start, start, 0, 1 >>
    ELSE << start, end, Rat(n, d)[1], Rat(n, d)[2] >>

\* calcInterpolated*, the two assertions and the factor: index is the result
\* of the find function, nextIndex = index + 1, the factor is n / deltaTime.
\* [fail, index, n, d]: the key index and the factor n/d
FactorAt(index, n, deltaTime) ==
    IF ~(n >= 0 /\ n <= deltaTime)
    THEN [ fail |-> "assert(0 <= factor <= 1)", index |-> index,
           n |-> n, d |-> deltaTime ]
    ELSE [ fail |-> "none", index |-> index, n |-> n, d |-> deltaTime ]

BracketAt(animationTime, keys, index) ==
    IF ~(index + 1 < Len(keys))
    THEN [ fail |-> "assert(next < count)", index |-> 0, n |-> 0, d |-> 1 ]
    ELSE FactorAt(index, animationTime - keys[index + 1].mTime,
                  keys[index + 2].mTime - keys[index + 1].mTime)

\* found = the result of the find function
Bracket(animationTime, keys, found) ==
    IF found.fail # "none"
    THEN [ fail |-> found.fail, index |-> 0, n |-> 0, d |-> 1 ]
    ELSE BracketAt(animationTime, keys, found.index)

\* out = start + factor * delta, on the bracket b
LerpKeys(keys, b) ==
    IF b.fail # "none"
    THEN [ fail |-> b.fail, out |-> Rat(0, 1) ]
    ELSE [ fail |-> "none",
           out  |-> Lerp(keys[b.index + 1].mValue, keys[b.index + 2].mValue,
                         b.n, b.d) ]

\* Interpolate(out, start, end, factor); out.Normalize(), on the bracket b
SlerpKeys(keys, b) ==
    IF b.fail # "none"
    THEN [ fail |-> b.fail, out |-> << 0, 0, 0, 1 >> ]
    ELSE [ fail |-> "none",
           out  |-> Slerp(keys[b.index + 1].mValue, keys[b.index + 2].mValue,
                          b.n, b.d) ]

\* faulty calcInterpolatedPosition: no early return for a track of one key
calcInterpolatedPositionSearching(animationTime, nodeAnim) ==
    LerpKeys(nodeAnim.mPositionKeys,
             Bracket(animationTime, nodeAnim.mPositionKeys,
                     findPosition(animationTime, nodeAnim)))

calcInterpolatedPosition(animationTime, nodeAnim) ==
    IF Len(nodeAnim.mPositionKeys) = 1
    THEN [ fail |-> "none", out |-> Rat(nodeAnim.mPositionKeys[1].mValue, 1) ]
    ELSE LerpKeys(nodeAnim.mPositionKeys,
                  Bracket(animationTime, nodeAnim.mPositionKeys,
                          findPosition(animationTime, nodeAnim)))

calcInterpolatedRotation(animationTime, nodeAnim) ==
    IF Len(nodeAnim.mRotationKeys) = 1
    THEN [ fail |-> "none",
           out  |-> << nodeAnim.mRotationKeys[1].mValue,
                       nodeAnim.mRotationKeys[1].mValue, 0, 1 >> ]
    ELSE SlerpKeys(nodeAnim.mRotationKeys,
                   Bracket(animationTime, nodeAnim.mRotationKeys,
                           findRotation(animationTime, nodeAnim)))

calcInterpolatedScaling(animationTime, nodeAnim) ==
    IF Len(nodeAnim.mScalingKeys) = 1
    THEN [ fail |-> "none", out |-> Rat(nodeAnim.mScalingKeys[1].mValue, 1) ]
    ELSE LerpKeys(nodeAnim.mScalingKeys,
                  Bracket(animationTime, nodeAnim.mScalingKeys,
                          findScaling(animationTime, nodeAnim)))

\* findNodeAnim: the index (from 1) of the first channel named nodeName,
\* 0 for nullptr
RECURSIVE findNodeAnimFrom(_, _, _)
findNodeAnimFrom(animation, nodeName, i) ==
    IF i > Len(animation.mChannels) THEN 0
    ELSE IF animation.mChannels[i].mNodeName = nodeName THEN i
    ELSE findNodeAnimFrom(animation, nodeName, i + 1)

findNodeAnim(animation, nodeName) == findNodeAnimFrom(animation, nodeName, 1)

\* readNodeHeirarchy, lines 382-401: translationM * rotationM * scalingM of
\* the three interpolations, [fail, m]; the scaling is interpolated first,
\* then the rotation, then the position, and the first failing assertion
\* ends the walk
ComposeTRS(scaling, rotation, position) ==
    IF scaling.fail # "none" THEN [ fail |-> scaling.fail, m |-> Identity ]
    ELSE IF rotation.fail # "none" THEN [ fail |-> rotation.fail, m |-> Identity ]
    ELSE IF position.fail # "none" THEN [ fail |-> position.fail, m |-> Identity ]
    ELSE [ fail |-> "none",
           m |-> Mul(Mul(TranslateM(position.out), RotateM(rotation.out)),
                     ScaleM(scaling.out)) ]

ChannelTransformation(animationTime, nodeAnim) ==
    ComposeTRS(calcInterpolatedScaling(animationTime, nodeAnim),
               calcInterpolatedRotation(animationTime, nodeAnim),
               calcInterpolatedPosition(animationTime, nodeAnim))

\* readNodeHeirarchy, lines 376-402: the local transformation of node n,
\* [fail, m]; c = findNodeAnim(animation, nodeName)
NodeTransformationAt(animation, animationTime, n, c) ==
    IF c = 0
    THEN [ fail |-> "none", m |-> NodeM(n) ]
    ELSE ChannelTransformation(animationTime, animation.mChannels[c])

NodeTransformation(animation, animationTime, nodes, n) ==
    NodeTransformationAt(animation, animationTime, n,
                         findNodeAnim(animation, nodes[n].mName))

\* faulty write: the product lands in BoneOffset
WriteOffset(mats, boneMapping, nodeName, globalInverseTransform, globalTransformation) ==
    IF Bound(boneMapping, nodeName)
    THEN [ mats EXCEPT ![boneMapping[nodeName] + 1].BoneOffset =
               Mul(Mul(globalInverseTransform, globalTransformation),
                   mats[boneMapping[nodeName] + 1].BoneOffset) ]
    ELSE mats

\* faulty write: a final matrix already written is kept
WriteFinalOnce(mats, boneMapping, nodeName, globalInverseTransform, globalTransformation) ==
    IF Bound(boneMapping, nodeName)
       /\ mats[boneMapping[nodeName] + 1].FinalTransformation = Zero
    THEN [ mats EXCEPT ![boneMapping[nodeName] + 1].FinalTransformation =
               Mul(Mul(globalInverseTransform, globalTransformation),
                   mats[boneMapping[nodeName] + 1].BoneOffset) ]
    ELSE mats

\* readNodeHeirarchy, lines 407-411: the write of one bone's final matrix
WriteFinal(mats, boneMapping, nodeName, globalInverseTransform, globalTransformation) ==
    IF Bound(boneMapping, nodeName)
    THEN LET boneIndex == boneMapping[nodeName]
         IN  [ mats EXCEPT ![boneIndex + 1].FinalTransformation =
                   Mul(Mul(globalInverseTransform, globalTransformation),
                       mats[boneIndex + 1].BoneOffset) ]
    ELSE mats

\* the calls of readNodeHeirarchy still to run, the next one first: the
\* children kids[1], kids[2], ... of a node, each with that node's global
\* transformation as its parentTransform, ahead of the calls already pending
PushChildren(kids, globalTransformation, pending) ==
    [ k \in 1..Len(kids) |-> << kids[k], globalTransformation >> ] \o pending

\* faulty visit: only a node the clip animates writes its bone
VisitWithAnimatedOnly(ctx, mats, n, globalTransformation, rest) ==
    [ fail |-> "none",
      mats |-> IF findNodeAnim(ctx.animation, ctx.nodes[n].mName) = 0
               THEN mats
               ELSE WriteFinal(mats, ctx.boneMapping, ctx.nodes[n].mName,
                               ctx.globalInverseTransform, globalTransformation),
      pending |-> PushChildren(Children(ctx.nodes, n), globalTransformation, rest) ]

\* readNodeHeirarchy, lines 405-414, on node n whose local transformation
\* is local.m: the bone matrices after the write and the calls for the
\* children, [fail, mats, pending]
VisitWith(ctx, mats, n, globalTransformation, rest) ==
    [ fail |-> "none",
      mats |-> WriteFinal(mats, ctx.boneMapping, ctx.nodes[n].mName,
                          ctx.globalInverseTransform, globalTransformation),
      pending |-> PushChildren(Children(ctx.nodes, n), globalTransformation, rest) ]

\* faulty visit: the node transformation is multiplied from the left
VisitSwapped(ctx, mats, n, parentTransform, local, rest) ==
    IF local.fail # "none"
    THEN [ fail |-> local.fail, mats |-> mats, pending |-> << >> ]
    ELSE VisitWith(ctx, mats, n, Mul(local.m, parentTransform), rest)

Visit(ctx, mats, n, parentTransform, local, rest) ==
    IF local.fail # "none"
    THEN [ fail |-> local.fail, mats |-> mats, pending |-> << >> ]
    ELSE VisitWith(ctx, mats, n, Mul(parentTransform, local.m), rest)

\* readNodeHeirarchy: the recursion as the list of its pending calls
\* <<node, parentTransform>>, which visits the nodes in the order the code
\* does (a node, then its subtrees in child order);
\* ctx = [animation, nodes, boneMapping, globalInverseTransform],
\* st = [fail, mats, pending] with mats = boneMatrices
RECURSIVE readNodeHeirarchy(_, _, _)
readNodeHeirarchy(ctx, st, animationTime) ==
    IF st.pending = << >> \/ st.fail # "none" THEN st
    ELSE readNodeHeirarchy(
             ctx,
             Visit(ctx, st.mats, st.pending[1][1], st.pending[1][2],
                   NodeTransformation(ctx.animation, animationTime, ctx.nodes,
                                      st.pending[1][1]),
                   Tail(st.pending)),
             animationTime)

\* boneTransform, line 265: the tick rate of a clip
ClipTicksPerSecond(animation) ==
    IF animation.mTicksPerSecond # 0
    THEN animation.mTicksPerSecond
    ELSE DefaultTicksPerSecond

\* boneTransform, lines 262-263: the duration of a clip that has a channel
ClipDuration(animation) ==
    LET keys == animation.mChannels[1].mPositionKeys
    IN  keys[Len(keys)].mTime

\* faulty animation time: the tick count is not wrapped
AnimationTimeUnwrapped(timeInSeconds, rate, duration) ==
    timeInSeconds * rate

\* boneTransform, lines 265-267
AnimationTime(timeInSeconds, rate, duration) ==
    FMod(timeInSeconds * rate, duration)

\* faulty snapshot: the bones in reverse order
SnapshotReversed(mats, count) ==
    [ i \in 1..count |-> mats[count + 1 - i].FinalTransformation ]

\* boneTransform, lines 269-272: the snapshot handed back to the caller
Snapshot(mats, count) ==
    [ i \in 1..count |-> mats[i].FinalTransformation ]

\* boneTransform, lines 268-272, with the animation time computed
Evaluated(ctx, mats, count, duration, time, walk) ==
    [ fail |-> walk.fail, animDuration |-> duration, animationTime |-> time,
      ticksPerSecond |-> ClipTicksPerSecond(ctx.animation),
      mats |-> walk.mats,
      transforms |-> IF walk.fail = "none"
                     THEN Snapshot(walk.mats, count) ELSE << >> ]

EvaluateAt(ctx, mats, count, duration, time) ==
    Evaluated(ctx, mats, count, duration, time,
              readNodeHeirarchy(ctx, [ fail |-> "none", mats |-> mats,
                                       pending |-> << << 1, Identity >> >> ],
                                time))

\* boneTransform: [fail, animDuration, animationTime, ticksPerSecond, mats,
\* transforms], ticksPerSecond being its local variable of line 265;
\* mChannels[0] of a clip without channels is a null pointer
boneTransformOf(animation, nodes, count, boneMapping, mats, globalInverseTransform, oldDuration, timeInSeconds) ==
    IF animation.mChannels = << >>
    THEN [ fail |-> "null mChannels", animDuration |-> oldDuration,
           animationTime |-> 0, ticksPerSecond |-> 0, mats |-> mats,
           transforms |-> << >> ]
    ELSE EvaluateAt([ animation |-> animation, nodes |-> nodes,
                      boneMapping |-> boneMapping,
                      globalInverseTransform |-> globalInverseTransform ],
                    mats, count, ClipDuration(animation),
                    AnimationTime(timeInSeconds, ClipTicksPerSecond(animation),
                                  ClipDuration(animation)))

\* faulty boneTransform: the rate of clip 0 is used for every clip
boneTransformRateOfClip0(sc, current, count, boneMapping, mats, globalInverseTransform, oldDuration, timeInSeconds) ==
    boneTransformOf([ sc.mAnimations[current + 1] EXCEPT
                          !.mTicksPerSecond = sc.mAnimations[1].mTicksPerSecond ],
                    sc.nodes, count, boneMapping, mats, globalInverseTransform,
                    oldDuration, timeInSeconds)

boneTransform(sc, current, count, boneMapping, mats, globalInverseTransform, oldDuration, timeInSeconds) ==
    boneTransformOf(sc.mAnimations[current + 1], sc.nodes, count, boneMapping,
                    mats, globalInverseTransform, oldDuration, timeInSeconds)

\* what the read of mChannels[0]->mPositionKeys[...].mTime may yield as
\* the duration when the clip has no channel and the program is not killed
IndeterminateDurations == { 0, 1 }

\* boneTransform with the duration read through mChannels[0] of a clip
\* without channels, which is undefined behaviour: the program is killed
\* (the outcome boneTransform gives), or the read yields some duration and
\* the evaluation goes on with it
boneTransformOutcomes(sc, current, count, boneMapping, mats, globalInverseTransform, oldDuration, timeInSeconds) ==
    { boneTransform(sc, current, count, boneMapping, mats,
                    globalInverseTransform, oldDuration, timeInSeconds) }
    \cup
    IF sc.mAnimations[current + 1].mChannels # << >> THEN { }
    ELSE { EvaluateAt([ animation |-> sc.mAnimations[current + 1],
                        nodes |-> sc.nodes,
                        boneMapping |-> boneMapping,
                        globalInverseTransform |-> globalInverseTransform ],
                      mats, count, d,
                      AnimationTime(timeInSeconds,
                                    ClipTicksPerSecond(sc.mAnimations[current + 1]),
                                    d)) :
             d \in IndeterminateDurations }

\* the local transformation of node n at animationTime, from the channels
\* of the clip: translation * rotation * scaling of the first channel that
\* carries the name of the node, the static transformation without one
LocalOf(animation, animationTime, nodes, n) ==
    IF \A c \in DOMAIN animation.mChannels :
           animation.mChannels[c].mNodeName # nodes[n].mName
    THEN NodeM(n)
    ELSE LET c == CHOOSE c \in DOMAIN animation.mChannels :
                      /\ animation.mChannels[c].mNodeName = nodes[n].mName
                      /\ \A b \in 1..(c - 1) :
                             animation.mChannels[b].mNodeName # nodes[n].mName
         IN  Mul(Mul(TranslateM(calcInterpolatedPosition(
                                    animationTime, animation.mChannels[c]).out),
                     RotateM(calcInterpolatedRotation(
                                 animationTime, animation.mChannels[c]).out)),
                 ScaleM(calcInterpolatedScaling(
                            animationTime, animation.mChannels[c]).out))

\* the global transformation of node n: the local transformations on the
\* path from the root to n multiplied in that order, the identity above
\* the root
RECURSIVE GlobalOf(_, _, _, _)
GlobalOf(animation, animationTime, nodes, n) ==
    IF nodes[n].parent = 0
    THEN Mul(Identity, LocalOf(animation, animationTime, nodes, n))
    ELSE Mul(GlobalOf(animation, animationTime, nodes, nodes[n].parent),
             LocalOf(animation, animationTime, nodes, n))

\* the bone matrices with every FinalTransformation replaced by the matrix
\* mark, and the evaluation of lines 268-272 run on them: an entry of its
\* result that is not mark was written by that evaluation
Marked(mats, mark) ==
    [ i \in DOMAIN mats |-> [ mats[i] EXCEPT !.FinalTransformation = mark ] ]

EvaluateMarked(sc, current, count, boneMapping, mats, globalInverseTransform, duration, time, mark) ==
    EvaluateAt([ animation |-> sc.mAnimations[current + 1], nodes |-> sc.nodes,
                 boneMapping |-> boneMapping,
                 globalInverseTransform |-> globalInverseTransform ],
               Marked(mats, mark), count, duration, time)

(* --------------------------- mesh inputs -------------------------------- *)

\* aiVertexWeight
Weight(vertexID, weight) == [ mVertexId |-> vertexID, mWeight |-> weight ]

\* aiBone
Bone(name, offset, weights) ==
    [ mName |-> name, mOffsetMatrix |-> offset, mWeights |-> weights ]

\* aiMesh
Mesh(numVertices, bones) == [ mNumVertices |-> numVertices, mBones |-> bones ]

\* mesh number k of a scene, carrying the bones named names[1], names[2], ...:
\* one vertex, on which every bone has the weight 1; every bone of every mesh
\* has an offset matrix of its own, number 10 * k + i
SceneMesh(k, names) ==
    Mesh(1, [ i \in 1..Len(names) |->
                Bone(names[i], OffsetM(10 * k + i), << Weight(0, 1) >>) ])

\* the bone names of one mesh, in order
BoneLists == SeqsOf(BoneNames, 0, MaxMeshBones)

\* what an uninitialised BoneIDs component may hold
IndeterminateIDs == { 0, -1 }

\* the (vertex, bone index, weight) records of the skinning specification
SkinVertices == { 0, 1 }

SkinBoneIndices == { 0, 1 }

SkinWeights == { 0, 1, 2 }

\* the scenes of the program specification: every tree, with no clip, one
\* clip, two clips
ProgramClip ==
    Clip(1, << Channel("a", << 0, 2 >>, << 0, 2 >>, << 0, 2 >>),
               Channel("b", << 0, 1 >>, << 0, 1 >>, << 0, 1 >>) >>)

ProgramScenes ==
    { Scene(t, cl) :
        t \in Trees,
        cl \in { << >>, << ProgramClip >>, << ProgramClip, OtherClip >> } }

\* the bone names of the meshes of the program specification
ProgramBoneLists == { << >>, << "a" >>, << "a", "b" >>, << "b", "a" >> }

(* ------------------------------- state ---------------------------------- *)

VARIABLES
    pc,                     \* where the program is: "constructed",
                            \* "processNode", "run", "frame" (between
                            \* ProcessInput and the rendering), "aborted"
    failure,                \* what ended the program, "none" while it runs
    scene,                  \* Model::scene
    numMeshes,              \* meshes the traversal of processNode meets
    mesh,                   \* processMesh: its argument and its local boneIndex
    meshes,                 \* Model::meshes: the vertices of each Mesh
    bonesCount,             \* Model::bonesCount
    boneMapping,            \* Model::boneMapping
    boneMatrices,           \* Model::boneMatrices
    currentAnimation,       \* Model::currentAnimation
    animDuration,           \* Model::animDuration
    ticksPerSecond,         \* Model::ticksPerSecond
    globalInverseTransform, \* Model::globalInverseTransform
    gBones,                 \* the shader's uniform array gBones as uploaded
    call,                   \* the latest call on the model and its locals
    vertices,               \* processMesh: its local vertices (skinning spec.)
    arrived,                \* per vertex, the records applied to it so far
    bindings,               \* every bone met so far, in order:
                            \* <<mName, boneIndex it resolved to,
                            \*   mOffsetMatrix, number of its mesh>>
    track,                  \* readNodeHeirarchy on an animated node: the
                            \* animation time and what the find and
                            \* calcInterpolated functions gave for it
    loadedTextures,         \* Model::loadedTextures
    textures,               \* the texture lists loadMaterialTextures
                            \* returned so far, appended as processMesh does
    cout,                   \* the paths reported as failed on std::cout
    readable,               \* the files stbi_load can read
    appCurrentAnimation,    \* ::currentAnimation of main.cpp
    animationChanged,       \* ::animationChanged of main.cpp
    lastFrame,              \* ::lastFrame of main.cpp, in seconds
    windowShouldClose,      \* the close flag of the GLFW window
    key1,                   \* what glfwGetKey gave for GLFW_KEY_1 in the
                            \* latest two calls of ProcessInput, the
                            \* earlier one first
    accepted,               \* how often ProcessInput ran lines 138-143
    uploads                 \* the uploads of gBones captured so far:
                            \* clip, time and matrices of each

vars == << pc, failure, scene, numMeshes, mesh, meshes, bonesCount, boneMapping,
           boneMatrices, currentAnimation, animDuration, ticksPerSecond,
           globalInverseTransform, gBones, call, vertices, arrived, bindings,
           track, loadedTextures, textures, cout, readable,
           appCurrentAnimation, animationChanged, lastFrame, windowShouldClose,
           key1, accepted, uploads >>

texvars == << loadedTextures, textures, cout, readable >>

appvars ==
    << appCurrentAnimation, animationChanged, lastFrame, windowShouldClose,
       key1, accepted >>

\* no material of the scene refers to a texture
NoTextures ==
    /\ loadedTextures = << >>
    /\ textures = << >>
    /\ cout = << >>
    /\ readable = { }

\* main.cpp, lines 25-30, before the first iteration of the render loop:
\* no key was read yet, nothing was uploaded
NoFrames ==
    /\ appCurrentAnimation = Uint(0)
    /\ animationChanged = FALSE
    /\ lastFrame = 0
    /\ windowShouldClose = FALSE
    /\ key1 = << "GLFW_RELEASE", "GLFW_RELEASE" >>
    /\ accepted = 0
    /\ uploads = << >>

registry == << bonesCount, boneMapping, boneMatrices >>

NoMesh == [ arg |-> Mesh(0, << >>), boneIndex |-> << >> ]

NoCall ==
    [ op |-> "none", arg |-> 0, animationTime |-> 0, ticksPerSecond |-> 0,
      evaluated |-> FALSE, uploaded |-> FALSE, size |-> 0 ]

NoFound == [ fail |-> "none", index |-> 0 ]

NoTrack ==
    [ animationTime |-> 0, evaluated |-> FALSE,
      positionIndex |-> NoFound, rotationIndex |-> NoFound,
      scalingIndex |-> NoFound,
      position |-> [ fail |-> "none", out |-> Rat(0, 1) ],
      rotation |-> [ fail |-> "none", out |-> << 0, 0, 0, 1 >> ],
      scaling |-> [ fail |-> "none", out |-> Rat(0, 1) ] ]

\* the Model constructor, line 38, and the in-class initialisers
Constructed ==
    /\ failure = "none"
    /\ scene = NullScene
    /\ numMeshes = 0
    /\ mesh = NoMesh
    /\ meshes = << >>
    /\ bonesCount = 0
    /\ boneMapping = << >>
    /\ boneMatrices = << >>
    /\ currentAnimation = 0
    /\ animDuration = 0
    /\ ticksPerSecond = 0
    /\ globalInverseTransform = Identity
    /\ gBones = << >>
    /\ call = NoCall

Init ==
    /\ pc = "constructed"
    /\ Constructed
    /\ vertices = << >>
    /\ arrived = << >>
    /\ bindings = << >>
    /\ track = NoTrack
    /\ NoTextures
    /\ NoFrames

\* scene->HasAnimations(), scene->mNumAnimations
HasAnimations(sc) == Len(sc.mAnimations) > 0

GetNumAnimations(sc) == Len(sc.mAnimations)

\* InitFromScene, lines 50-57, up to the call of processNode
InitFromScene(sc, n) ==
    /\ pc = "constructed"
    /\ scene' = sc
    /\ globalInverseTransform' = InverseM(1)
    /\ ticksPerSecond' =
           IF HasAnimations(sc)
              /\ sc.mAnimations[currentAnimation + 1].mTicksPerSecond # 0
           THEN sc.mAnimations[currentAnimation + 1].mTicksPerSecond
           ELSE DefaultTicksPerSecond
    /\ numMeshes' = n
    /\ pc' = "processNode"
    /\ call' = [ NoCall EXCEPT !.op = "InitFromScene" ]
    /\ UNCHANGED << failure, mesh, meshes, registry, currentAnimation,
                    animDuration, gBones, vertices, arrived, bindings, track, texvars,
                    appvars, uploads >>

\* processNode, line 131: meshes.push_back(processMesh(mesh)) for the next
\* mesh of the traversal
ProcessMesh(names, u) ==
    /\ pc = "processNode"
    /\ Len(meshes) < numMeshes
    /\ LET m == SceneMesh(Len(meshes) + 1, names)
           r == ProcessMeshResult(Registry(bonesCount, boneMapping, boneMatrices),
                                  m, u)
       IN  /\ bonesCount' = r.reg.bonesCount
           /\ boneMapping' = r.reg.boneMapping
           /\ boneMatrices' = r.reg.boneMatrices
           /\ meshes' = Append(meshes, r.vertices)
           /\ mesh' = [ arg |-> m, boneIndex |-> r.boneIndex ]
           /\ bindings' = bindings \o
                  [ i \in 1..Len(m.mBones) |->
                      << m.mBones[i].mName, r.boneIndex[i],
                         m.mBones[i].mOffsetMatrix, Len(meshes) + 1 >> ]
    /\ call' = [ NoCall EXCEPT !.op = "processMesh" ]
    /\ UNCHANGED << pc, failure, scene, numMeshes, currentAnimation, animDuration,
                    ticksPerSecond, globalInverseTransform, gBones, vertices,
                    arrived, track, texvars,
                    appvars, uploads >>

\* processNode and InitFromScene return; LoadModelFromFilename returns the model
ReturnModel ==
    /\ pc = "processNode"
    /\ Len(meshes) = numMeshes
    /\ pc' = "run"
    /\ mesh' = NoMesh
    /\ call' = [ NoCall EXCEPT !.op = "LoadModelFromFilename" ]
    /\ UNCHANGED << failure, scene, numMeshes, meshes, registry, currentAnimation,
                    animDuration, ticksPerSecond, globalInverseTransform, gBones,
                    vertices, arrived, bindings, track, texvars,
                    appvars, uploads >>

\* LoadModelFromFilename, lines 166-169 and 175: the import failed (no
\* scene, an incomplete scene, no root node); the error is printed and the
\* model is returned as constructed
ImportFailed ==
    /\ pc = "constructed"
    /\ pc' = "run"
    /\ call' = [ NoCall EXCEPT !.op = "LoadModelFromFilename" ]
    /\ UNCHANGED << failure, scene, numMeshes, mesh, meshes, registry,
                    currentAnimation, animDuration, ticksPerSecond,
                    globalInverseTransform, gBones, vertices, arrived,
                    bindings, track, texvars,
                    appvars, uploads >>

\* the first call on a model whose scene is nullptr: op = "HasAnimations"
\* for an iteration of the render loop (main.cpp line 106), op =
\* "GetNumAnimations" for a press of key 1 (main.cpp line 138).  Both read
\* through the null pointer, which is undefined: the program is killed, or
\* the read yields 0 and nothing else happens
DerefNullScene(op, killed) ==
    /\ pc = "run"
    /\ scene.null
    /\ call' = [ NoCall EXCEPT !.op = op ]
    /\ pc' = IF killed THEN "aborted" ELSE "run"
    /\ failure' = IF killed THEN "null scene" ELSE failure
    /\ UNCHANGED << scene, numMeshes, mesh, meshes, registry,
                    currentAnimation, animDuration, ticksPerSecond,
                    globalInverseTransform, gBones, vertices, arrived,
                    bindings, track, texvars,
                    appvars, uploads >>

\* faulty SetAnimation: an index out of range selects clip 0
SetAnimationClamped(animation) ==
    /\ pc = "run"
    /\ ~scene.null
    /\ currentAnimation' =
           IF animation < GetNumAnimations(scene) THEN animation ELSE 0
    /\ call' = [ NoCall EXCEPT !.op = "SetAnimation", !.arg = animation ]
    /\ UNCHANGED << pc, failure, scene, numMeshes, mesh, meshes, registry,
                    animDuration, ticksPerSecond, globalInverseTransform, gBones,
                    vertices, arrived, bindings, track, texvars,
                    appvars, uploads >>

\* SetAnimation, lines 70-74 (animation is unsigned: animation >= 0 holds)
SetAnimation(animation) ==
    /\ pc = "run"
    /\ ~scene.null
    /\ currentAnimation' =
           IF animation >= 0 /\ animation < GetNumAnimations(scene)
           THEN animation
           ELSE currentAnimation
    /\ call' = [ NoCall EXCEPT !.op = "SetAnimation", !.arg = animation ]
    /\ UNCHANGED << pc, failure, scene, numMeshes, mesh, meshes, registry,
                    animDuration, ticksPerSecond, globalInverseTransform, gBones,
                    vertices, arrived, bindings, track, texvars,
                    appvars, uploads >>

\* Shader::SetMatrix4v on the matrices boneTransform handed back:
\* value_ptr(matrices[0]) on an empty vector is undefined, the program is
\* killed or 0 matrices are uploaded; the other failures are those of
\* boneTransform
UploadOutcomes(r) ==
    IF r.fail = "none" /\ r.transforms = << >>
    THEN { "none", "matrices[0] of an empty vector" }
    ELSE { r.fail }

\* SetBoneTransformations, lines 76-84: boneTransform and the upload of its
\* result when the scene has animations; a failing assertion or the null
\* mChannels ends the program
UploadBones(currentTime) ==
    /\ ~scene.null
    /\ IF ~HasAnimations(scene)
       THEN /\ call' = [ NoCall EXCEPT !.op = "SetBoneTransformations",
                                       !.arg = currentTime ]
            /\ pc' = "run"
            /\ UNCHANGED << failure, boneMatrices, animDuration, gBones >>
       ELSE \E r \in boneTransformOutcomes(scene, currentAnimation, bonesCount,
                                             boneMapping, boneMatrices,
                                             globalInverseTransform,
                                             animDuration, currentTime) :
                /\ call' = [ op |-> "SetBoneTransformations",
                             arg |-> currentTime,
                             animationTime |-> r.animationTime,
                             ticksPerSecond |-> r.ticksPerSecond,
                             evaluated |-> TRUE,
                             uploaded |-> (r.fail = "none"),
                             size |-> Len(r.transforms) ]
                /\ boneMatrices' = r.mats
                /\ animDuration' = r.animDuration
                /\ failure' \in UploadOutcomes(r)
                /\ pc' = IF failure' = "none" THEN "run" ELSE "aborted"
                /\ gBones' = IF r.fail = "none" /\ r.transforms # << >>
                             THEN r.transforms ELSE gBones
    /\ UNCHANGED << scene, numMeshes, mesh, meshes, bonesCount, boneMapping,
                    currentAnimation, ticksPerSecond, globalInverseTransform,
                    vertices, arrived, bindings, track, texvars, appvars >>

\* a call of SetBoneTransformations on the loaded model
SetBoneTransformations(currentTime) ==
    /\ pc = "run"
    /\ UploadBones(currentTime)
    /\ UNCHANGED uploads

\* one iteration of the weight loop of processMesh, lines 206-217, on the
\* local vertices
StoreRecord(vertexID, boneIndex, weight) ==
    /\ pc = "processMesh"
    /\ Len(arrived[0]) + Len(arrived[1]) < MaxRecords
    /\ vertices' = StoreWeights(vertices, boneIndex,
                                << Weight(vertexID, weight) >>, 1)
    /\ arrived' = [ arrived EXCEPT ![vertexID] =
                        Append(@, << boneIndex, weight >>) ]
    /\ UNCHANGED << pc, failure, scene, numMeshes, mesh, meshes, registry,
                    currentAnimation, animDuration, ticksPerSecond,
                    globalInverseTransform, gBones, call, bindings, track, texvars,
                    appvars, uploads >>

\* the program: few scenes, few meshes, every operation
Next ==
    \/ \E sc \in ProgramScenes, n \in { 0, 1, 2 } : InitFromScene(sc, n)
    \/ \E names \in ProgramBoneLists, u \in IndeterminateIDs : ProcessMesh(names, u)
    \/ ReturnModel
    \/ \E animation \in 0..(GetNumAnimations(scene) + 1) : SetAnimation(animation)
    \/ \E currentTime \in 0..MaxSeconds : SetBoneTransformations(currentTime)
    \/ ImportFailed
    \/ \E op \in { "HasAnimations", "GetNumAnimations" }, killed \in BOOLEAN :
           DerefNullScene(op, killed)

Spec == Init /\ [][Next]_vars

\* the evaluator: every scene, one mesh that binds both bones
NextEval ==
    \/ \E sc \in Scenes : InitFromScene(sc, 1)
    \/ \E u \in IndeterminateIDs : ProcessMesh(<< "a", "b" >>, u)
    \/ ReturnModel
    \/ \E animation \in 0..(GetNumAnimations(scene) + 1) : SetAnimation(animation)
    \/ \E currentTime \in 0..MaxSeconds : SetBoneTransformations(currentTime)

SpecEval == Init /\ [][NextEval]_vars

\* the loader: every list of meshes
NextLoad ==
    \/ \E sc \in ProgramScenes, n \in 0..MaxMeshes : InitFromScene(sc, n)
    \/ \E names \in BoneLists, u \in IndeterminateIDs : ProcessMesh(names, u)
    \/ ReturnModel

SpecLoad == Init /\ [][NextLoad]_vars

\* the weight loop of processMesh on the vertices of one mesh: the state
\* after the vertex loop of the first mesh of a scene, then record by record
InitSkin ==
    /\ pc = "processMesh"
    /\ failure = "none"
    /\ scene = Scene(ChainTree, << ProgramClip >>)
    /\ numMeshes = 1
    /\ mesh = NoMesh
    /\ meshes = << >>
    /\ bonesCount = 0
    /\ boneMapping = << >>
    /\ boneMatrices = << >>
    /\ currentAnimation = 0
    /\ animDuration = 0
    /\ ticksPerSecond = ProgramClip.mTicksPerSecond
    /\ globalInverseTransform = InverseM(1)
    /\ gBones = << >>
    /\ call = [ NoCall EXCEPT !.op = "InitFromScene" ]
    /\ \E u \in IndeterminateIDs :
           vertices = [ v \in 1..Cardinality(SkinVertices) |-> NewVertex(u) ]
    /\ arrived = [ v \in SkinVertices |-> << >> ]
    /\ bindings = << >>
    /\ track = NoTrack
    /\ NoTextures
    /\ NoFrames

NextSkin ==
    \E vertexID \in SkinVertices, boneIndex \in SkinBoneIndices,
       weight \in SkinWeights : StoreRecord(vertexID, boneIndex, weight)

SpecSkin == InitSkin /\ [][NextSkin]_vars

\* the key timestamps of a track handed to the interpolation functions
TrackTimeLists ==
    { ts \in SeqsOf(0..MaxTrackTime, 1, MaxTrackKeys) : Increasing(ts) }

\* the animation times handed to them: in and beyond the key range, and NaN
TrackTimes == (0..(MaxTrackTime + 1)) \cup { NaN }

\* readNodeHeirarchy, lines 380-398, on the node "a" of a scene whose clip
\* has one channel, for "a": the three find functions and the three
\* calcInterpolated functions applied to that channel and animationTime
Interpolate(animationTime) ==
    /\ pc = "readNodeHeirarchy"
    /\ track' =
           [ animationTime |-> animationTime,
             evaluated |-> TRUE,
             positionIndex |->
                 findPosition(animationTime, scene.mAnimations[1].mChannels[1]),
             rotationIndex |->
                 findRotation(animationTime, scene.mAnimations[1].mChannels[1]),
             scalingIndex |->
                 findScaling(animationTime, scene.mAnimations[1].mChannels[1]),
             position |->
                 calcInterpolatedPosition(animationTime,
                                          scene.mAnimations[1].mChannels[1]),
             rotation |->
                 calcInterpolatedRotation(animationTime,
                                          scene.mAnimations[1].mChannels[1]),
             scaling |->
                 calcInterpolatedScaling(animationTime,
                                         scene.mAnimations[1].mChannels[1]) ]
    /\ UNCHANGED << pc, failure, scene, numMeshes, mesh, meshes, registry,
                    currentAnimation, animDuration, ticksPerSecond,
                    globalInverseTransform, gBones, call, vertices, arrived,
                    bindings, texvars,
                    appvars, uploads >>

\* the interpolation functions on every channel: the state inside
\* boneTransform of a model without meshes, before the walk reaches node "a"
InitTrack ==
    /\ pc = "readNodeHeirarchy"
    /\ failure = "none"
    /\ \E p \in TrackTimeLists, r \in TrackTimeLists, s \in TrackTimeLists :
           scene = Scene(ChainTree, << Clip(1, << Channel("a", p, r, s) >>) >>)
    /\ numMeshes = 0
    /\ mesh = NoMesh
    /\ meshes = << >>
    /\ bonesCount = 0
    /\ boneMapping = << >>
    /\ boneMatrices = << >>
    /\ currentAnimation = 0
    /\ animDuration = ClipDuration(scene.mAnimations[1])
    /\ ticksPerSecond = 1
    /\ globalInverseTransform = InverseM(1)
    /\ gBones = << >>
    /\ call = [ NoCall EXCEPT !.op = "SetBoneTransformations" ]
    /\ vertices = << >>
    /\ arrived = << >>
    /\ bindings = << >>
    /\ track = NoTrack
    /\ NoTextures
    /\ NoFrames

NextTrack == \E animationTime \in TrackTimes : Interpolate(animationTime)

SpecTrack == InitTrack /\ [][NextTrack]_vars

\* the texture files the materials name
TexturePaths == { "x.png", "y.png" }

TextureTypes == { "texture_diffuse", "texture_specular" }

\* TextureFromFile: the name glGenTextures hands out (names are handed out
\* in order, one per call, and every call of TextureFromFile ends in
\* loadedTextures), and what is printed when stbi_load gives no data
TextureFromFile(filename, loaded, files) ==
    [ textureID |-> Len(loaded) + 1,
      printed |-> IF filename \in files THEN << >> ELSE << filename >> ]

\* the index of the first loaded texture with the path str, 0 for none
RECURSIVE FindLoaded(_, _, _)
FindLoaded(loaded, str, j) ==
    IF j > Len(loaded) THEN 0
    ELSE IF loaded[j].Path = str THEN j
    ELSE FindLoaded(loaded, str, j + 1)

\* loadMaterialTextures, lines 454-457: the Texture of a path not loaded yet
NewTexture(str, typeName, loaded, files) ==
    [ ID |-> TextureFromFile(str, loaded, files).textureID,
      Type |-> typeName, Path |-> str ]

\* loadMaterialTextures, lines 439-460: one iteration of its loop, for the
\* texture str of the type typeName
LoadMaterialTexture(str, typeName) ==
    /\ pc = "loadMaterialTextures"
    /\ Len(textures) < MaxTextures
    /\ IF FindLoaded(loadedTextures, str, 1) # 0
       THEN /\ textures' =
                   Append(textures, loadedTextures[FindLoaded(loadedTextures, str, 1)])
            /\ UNCHANGED << loadedTextures, cout >>
       ELSE /\ textures' =
                   Append(textures, NewTexture(str, typeName, loadedTextures, readable))
            /\ loadedTextures' =
                   Append(loadedTextures,
                          NewTexture(str, typeName, loadedTextures, readable))
            /\ cout' = cout \o
                   TextureFromFile(str, loadedTextures, readable).printed
    /\ UNCHANGED << pc, failure, scene, numMeshes, mesh, meshes, registry,
                    currentAnimation, animDuration, ticksPerSecond,
                    globalInverseTransform, gBones, call, vertices, arrived,
                    bindings, track, readable,
                    appvars, uploads >>

\* the material textures of the meshes of a scene: the state when
\* processMesh reaches line 230 for the first mesh, then texture by texture
InitTex ==
    /\ pc = "loadMaterialTextures"
    /\ failure = "none"
    /\ scene = Scene(ChainTree, << >>)
    /\ numMeshes = 1
    /\ mesh = NoMesh
    /\ meshes = << >>
    /\ bonesCount = 0
    /\ boneMapping = << >>
    /\ boneMatrices = << >>
    /\ currentAnimation = 0
    /\ animDuration = 0
    /\ ticksPerSecond = DefaultTicksPerSecond
    /\ globalInverseTransform = InverseM(1)
    /\ gBones = << >>
    /\ call = [ NoCall EXCEPT !.op = "InitFromScene" ]
    /\ vertices = << >>
    /\ arrived = << >>
    /\ bindings = << >>
    /\ track = NoTrack
    /\ loadedTextures = << >>
    /\ textures = << >>
    /\ cout = << >>
    /\ readable \in SUBSET TexturePaths
    /\ NoFrames

NextTex ==
    \E str \in TexturePaths, typeName \in TextureTypes :
        LoadMaterialTexture(str, typeName)

SpecTex == InitTex /\ [][NextTex]_vars

\* the scenes of the replay specification: two clips each, with clips that
\* differ in rate, duration and animated node, one of them without channels
ReplayClip == Clip(1, << Channel("a", << 0, 2 >>, << 0, 2 >>, << 0, 2 >>) >>)

ReplayScenes ==
    { Scene(t, cl) :
        t \in Trees,
        cl \in { << ReplayClip, OtherClip >>, << OtherClip, RateZeroClip >>,
                 << ReplayClip, Clip(1, << >>) >> } }

\* the times of the calls of the replay specification, in seconds
ReplayTimes == { 0, 1 }

\* the bone matrices as processMesh left them: no FinalTransformation
\* written yet
AfterBinding(mats) == Marked(mats, Zero)

\* a call of SetBoneTransformations whose upload is captured when the call
\* returns: the clip and the time of the call, the matrices handed to
\* SetMatrix4v
SetBoneTransformationsCaptured(currentTime) ==
    /\ pc = "run"
    /\ Len(uploads) < MaxUploads
    /\ UploadBones(currentTime)
    /\ uploads' =
           IF call'.uploaded /\ failure' = "none"
           THEN Append(uploads, [ clip |-> currentAnimation,
                                  time |-> currentTime,
                                  transforms |-> gBones' ])
           ELSE uploads

\* the evaluator called again and again on one loaded model, between
\* changes of the clip
NextReplay ==
    \/ \E sc \in ReplayScenes : InitFromScene(sc, 1)
    \/ \E u \in IndeterminateIDs : ProcessMesh(<< "a", "b" >>, u)
    \/ ReturnModel
    \/ \E animation \in 0..(GetNumAnimations(scene) + 1) : SetAnimation(animation)
    \/ \E currentTime \in ReplayTimes : SetBoneTransformationsCaptured(currentTime)

SpecReplay == Init /\ [][NextReplay]_vars

\* glfwGetKey: the states of a key
KeyStates == { "GLFW_PRESS", "GLFW_RELEASE" }

\* ProcessInput, lines 138-141: the index after currentAnimation when the
\* model has n clips; n - 1 is an unsigned difference
NextAnimation(current, n) ==
    IF UintLess(current, UintMinusOne(Uint(n)))
    THEN UintPlusOne(current)
    ELSE Uint(0)

\* Model::SetAnimation, lines 70-74, called with the unsigned animation:
\* the value of Model::currentAnimation after the call
Selected(sc, current, animation) ==
    IF UintLess(animation, Uint(GetNumAnimations(sc)))
    THEN UintValue(animation)
    ELSE current

\* faulty condition of line 136: every frame with the key down counts
AcceptsWhileDown(key, changed) == key = "GLFW_PRESS"

\* ProcessInput, line 136: the press of key 1 is taken
Accepts(key, changed) == key = "GLFW_PRESS" /\ ~changed

\* the start of an iteration of the render loop, main.cpp lines 80-90: the
\* loop condition, the time of the frame (glfwGetTime never goes back) and
\* ProcessInput, lines 130-147, with what glfwGetKey gives for ESC and for
\* key 1; glfwGetKey reads the state the latest glfwPollEvents left, so both
\* reads of key 1 give the same
ProcessInput(currentFrame, escape, key) ==
    /\ pc = "run"
    /\ ~scene.null
    /\ ~windowShouldClose
    /\ currentFrame >= lastFrame
    /\ Accepts(key, animationChanged) => accepted < MaxPresses
    /\ lastFrame' = currentFrame
    /\ windowShouldClose' = escape
    /\ key1' = << key1[2], key >>
    /\ IF Accepts(key, animationChanged)
       THEN /\ appCurrentAnimation' =
                   NextAnimation(appCurrentAnimation, GetNumAnimations(scene))
            /\ currentAnimation' =
                   Selected(scene, currentAnimation, appCurrentAnimation')
            /\ animationChanged' = TRUE
            /\ accepted' = accepted + 1
       ELSE /\ animationChanged' =
                   IF key = "GLFW_RELEASE" THEN FALSE ELSE animationChanged
            /\ UNCHANGED << appCurrentAnimation, currentAnimation, accepted >>
    /\ pc' = "frame"
    /\ call' = [ NoCall EXCEPT !.op = "ProcessInput" ]
    /\ UNCHANGED << failure, scene, numMeshes, mesh, meshes, registry,
                    animDuration, ticksPerSecond, globalInverseTransform,
                    gBones, vertices, arrived, bindings, track, texvars,
                    uploads >>

\* the rest of the iteration, main.cpp lines 106-110: SetBoneTransformations
\* with the time of the frame
RenderFrame ==
    /\ pc = "frame"
    /\ UploadBones(lastFrame)
    /\ UNCHANGED uploads

\* the application: the load, then the render loop frame by frame
NextApp ==
    \/ \E sc \in ProgramScenes : InitFromScene(sc, 1)
    \/ \E names \in ProgramBoneLists, u \in IndeterminateIDs : ProcessMesh(names, u)
    \/ ReturnModel
    \/ \E currentFrame \in 0..MaxSeconds, escape \in BOOLEAN, key \in KeyStates :
           ProcessInput(currentFrame, escape, key)
    \/ RenderFrame

SpecApp == Init /\ [][NextApp]_vars

(* ------------------------------ properties ------------------------------ *)

\* C1: binding a bone name that is already bound gives back the index the
\* name got first and allocates nothing: at every point of the load
\* boneMapping holds each name met under the index every binding of that name
\* resolved to, and bonesCount is the number of distinct names met, the size
\* of boneMapping and the size of boneMatrices.
C1_BindIdempotent ==
    /\ \A i, j \in DOMAIN bindings :
           bindings[i][1] = bindings[j][1] => bindings[i][2] = bindings[j][2]
    /\ \A i \in DOMAIN bindings :
           /\ Bound(boneMapping, bindings[i][1])
           /\ boneMapping[bindings[i][1]] = bindings[i][2]
    /\ bonesCount = Cardinality({ bindings[i][1] : i \in DOMAIN bindings })
    /\ Cardinality(DOMAIN boneMapping) = bonesCount
    /\ Len(boneMatrices) = bonesCount

\* the load is over, four bones were met, two names among them
C1_Witness ==
    /\ pc = "run"
    /\ Len(bindings) = 4
    /\ bonesCount = 2
    /\ \E i, j \in DOMAIN bindings : i < j /\ bindings[i][1] = bindings[j][1]

\* C2: a vertex never carries more than NUM_BONES_PER_VERTEX influences of
\* nonzero weight, however many records name it: it carries as many as records
\* of nonzero weight arrived, up to NUM_BONES_PER_VERTEX, and each of them is
\* a record that arrived.
C2_AtMostFourInfluences ==
    \A v \in DOMAIN arrived :
        LET vertex == vertices[v + 1]
            stored == { g \in DOMAIN vertex.BoneWeights : vertex.BoneWeights[g] # 0 }
            sent == { k \in DOMAIN arrived[v] : arrived[v][k][2] # 0 }
        IN  /\ Cardinality(stored) <= NUM_BONES_PER_VERTEX
            /\ Cardinality(stored) =
                   IF Cardinality(sent) < NUM_BONES_PER_VERTEX
                   THEN Cardinality(sent) ELSE NUM_BONES_PER_VERTEX
            /\ \A g \in stored :
                   \E k \in sent :
                       arrived[v][k] = << vertex.BoneIDs[g], vertex.BoneWeights[g] >>

\* five records of nonzero weight arrived at vertex 0
C2_Witness ==
    /\ Len(arrived[0]) = 5
    /\ \A k \in 1..5 : arrived[0][k][2] # 0
    /\ \A g \in 1..NUM_BONES_PER_VERTEX : vertices[1].BoneWeights[g] # 0

\* C3 as stated: the influences a vertex holds are the first
\* NUM_BONES_PER_VERTEX records that arrived, in arrival order, slot by slot.
C3_FirstFourArrived ==
    \A v \in DOMAIN arrived :
        \A g \in 1..NUM_BONES_PER_VERTEX :
            g <= Len(arrived[v]) =>
                /\ vertices[v + 1].BoneIDs[g] = arrived[v][g][1]
                /\ vertices[v + 1].BoneWeights[g] = arrived[v][g][2]

\* C3, amended: the slots of nonzero weight of a vertex are its first slots,
\* and they hold, in slot order, the first NUM_BONES_PER_VERTEX records of
\* nonzero weight that arrived, in arrival order; every other slot has the
\* weight 0.
C3_FirstFourNonZero ==
    \A v \in DOMAIN arrived :
        \A g \in 1..NUM_BONES_PER_VERTEX :
            IF g <= Len(SelectSeq(arrived[v], NonZeroWeight))
            THEN /\ vertices[v + 1].BoneIDs[g] =
                        SelectSeq(arrived[v], NonZeroWeight)[g][1]
                 /\ vertices[v + 1].BoneWeights[g] =
                        SelectSeq(arrived[v], NonZeroWeight)[g][2]
            ELSE vertices[v + 1].BoneWeights[g] = 0

\* vertex 1 met a record of weight 0 first, then four records of nonzero
\* weight: the four are what it holds
C3_Witness ==
    /\ Len(arrived[1]) = 5
    /\ arrived[1][1][2] = 0
    /\ \A k \in 2..5 : arrived[1][k][2] # 0
    /\ \A g \in 1..NUM_BONES_PER_VERTEX :
           << vertices[2].BoneIDs[g], vertices[2].BoneWeights[g] >> =
               arrived[1][g + 1]

\* C4: every binding of a bone name, in whichever mesh, resolves to the index
\* of the first binding of that name, and the BoneOffset of that index is the
\* offset matrix carried by the first binding.
C4_FirstMeshWins ==
    \A i \in DOMAIN bindings :
        \E first \in 1..i :
            /\ bindings[first][1] = bindings[i][1]
            /\ \A h \in 1..(first - 1) : bindings[h][1] # bindings[i][1]
            /\ bindings[i][2] = bindings[first][2]
            /\ boneMatrices[bindings[i][2] + 1].BoneOffset = bindings[first][3]

\* two meshes carried the same bone name with different offset matrices
C4_Witness ==
    /\ pc = "run"
    /\ \E i, j \in DOMAIN bindings :
           /\ bindings[i][4] = 1
           /\ bindings[j][4] = 2
           /\ bindings[i][1] = bindings[j][1]
           /\ bindings[i][3] # bindings[j][3]

\* C5: the indices of boneMapping are exactly 0 .. bonesCount - 1, one per
\* name; no step removes a name, changes the index of a name or changes the
\* BoneOffset of a bone; SetAnimation and SetBoneTransformations leave
\* boneMapping, bonesCount and the size of boneMatrices as they were.
C5_RegistryAppendOnly ==
    /\ [](/\ { boneMapping[n] : n \in DOMAIN boneMapping } = 0..(bonesCount - 1)
          /\ Cardinality(DOMAIN boneMapping) = bonesCount)
    /\ [][ /\ \A n \in DOMAIN boneMapping :
                  /\ n \in DOMAIN boneMapping'
                  /\ boneMapping'[n] = boneMapping[n]
                  /\ boneMatrices'[boneMapping[n] + 1].BoneOffset =
                         boneMatrices[boneMapping[n] + 1].BoneOffset
           /\ bonesCount' >= bonesCount
           /\ call'.op \in { "SetAnimation", "SetBoneTransformations" } =>
                  /\ boneMapping' = boneMapping
                  /\ bonesCount' = bonesCount
                  /\ Len(boneMatrices') = Len(boneMatrices) ]_vars

\* clip 1 was selected and evaluated on a model of two bones
C5_Witness ==
    /\ call.op = "SetBoneTransformations"
    /\ call.evaluated
    /\ failure = "none"
    /\ currentAnimation = 1
    /\ bonesCount = 2
    /\ \E i \in 1..2 : boneMatrices[i].FinalTransformation # Zero

\* C6: SetAnimation(i) with i at or beyond the number of clips changes
\* nothing, with i below it makes i the current clip and changes nothing
\* else; the current clip is a valid index whenever the scene has a clip.
C6_SetAnimationInRange ==
    /\ [](HasAnimations(scene) => currentAnimation < GetNumAnimations(scene))
    /\ [][ call'.op = "SetAnimation" =>
               /\ currentAnimation' =
                      IF call'.arg < GetNumAnimations(scene)
                      THEN call'.arg ELSE currentAnimation
               /\ UNCHANGED << pc, failure, scene, numMeshes, mesh, meshes,
                               registry, animDuration, ticksPerSecond,
                               globalInverseTransform, gBones >> ]_vars

\* clip 1 is current and the latest call asked for a clip that does not exist
C6_Witness ==
    /\ call.op = "SetAnimation"
    /\ call.arg >= GetNumAnimations(scene)
    /\ GetNumAnimations(scene) = 2
    /\ currentAnimation = 1

\* C7: after an evaluation that succeeded the uploaded sequence has
\* bonesCount entries, and the entry at the index of a bone is the
\* FinalTransformation of that bone.
C7_SnapshotAligned ==
    (call.op = "SetBoneTransformations" /\ call.evaluated /\ failure = "none") =>
        /\ Len(gBones) = bonesCount
        /\ \A n \in DOMAIN boneMapping :
               gBones[boneMapping[n] + 1] =
                   boneMatrices[boneMapping[n] + 1].FinalTransformation

\* an evaluation left two bones with different final transformations
C7_Witness ==
    /\ call.op = "SetBoneTransformations"
    /\ call.evaluated
    /\ failure = "none"
    /\ bonesCount = 2
    /\ gBones[1] # gBones[2]
    /\ gBones[1] # Zero
    /\ gBones[2] # Zero

\* C8 as stated: with at least one key in every track of every clip, no
\* evaluation ends in a failing assertion.
C8_NoFailingAssertion ==
    (\A a \in DOMAIN scene.mAnimations :
        \A c \in DOMAIN scene.mAnimations[a].mChannels :
            /\ Len(scene.mAnimations[a].mChannels[c].mPositionKeys) >= 1
            /\ Len(scene.mAnimations[a].mChannels[c].mRotationKeys) >= 1
            /\ Len(scene.mAnimations[a].mChannels[c].mScalingKeys) >= 1)
    => failure \notin { "assert(0)", "assert(next < count)",
                        "assert(0 <= factor <= 1)" }

\* C9 as stated: the animation time handed to the hierarchy walk is the tick
\* count wrapped by the duration of the clip and lies in [0, duration).
C9_TimeInRange ==
    (/\ call.op = "SetBoneTransformations"
     /\ call.evaluated
     /\ scene.mAnimations[currentAnimation + 1].mChannels # << >>) =>
        /\ 0 <= call.animationTime
        /\ call.animationTime < ClipDuration(scene.mAnimations[currentAnimation + 1])
        /\ \E k \in 0..(call.arg * ClipTicksPerSecond(scene.mAnimations[currentAnimation + 1])) :
               call.animationTime
                   + k * ClipDuration(scene.mAnimations[currentAnimation + 1])
                 = call.arg * ClipTicksPerSecond(scene.mAnimations[currentAnimation + 1])

\* C10: an evaluation whose tick count is a positive multiple of the duration
\* of the clip behaves as the evaluation at time 0 does: the same animation
\* time, the same outcome, the same final transformations and the same
\* sequence handed back.
C10_Periodic ==
    (/\ call.op = "SetBoneTransformations"
     /\ call.evaluated
     /\ scene.mAnimations[currentAnimation + 1].mChannels # << >>
     /\ \E k \in 1..(call.arg * ClipTicksPerSecond(scene.mAnimations[currentAnimation + 1])) :
            call.arg * ClipTicksPerSecond(scene.mAnimations[currentAnimation + 1])
                = k * ClipDuration(scene.mAnimations[currentAnimation + 1])) =>
        LET atZero == boneTransform(scene, currentAnimation, bonesCount,
                                    boneMapping, boneMatrices,
                                    globalInverseTransform, animDuration, 0)
        IN  /\ atZero.animationTime = call.animationTime
            /\ atZero.fail = failure
            /\ failure = "none" =>
                   /\ atZero.transforms = gBones
                   /\ atZero.mats = boneMatrices

\* an evaluation two or more durations into a clip whose first channel moves
C10_Witness ==
    /\ call.op = "SetBoneTransformations"
    /\ call.evaluated
    /\ failure = "none"
    /\ scene.mAnimations[currentAnimation + 1].mChannels # << >>
    /\ Len(scene.mAnimations[currentAnimation + 1].mChannels[1].mPositionKeys) = 2
    /\ ClipDuration(scene.mAnimations[currentAnimation + 1]) > 0
    /\ \E k \in 2..(call.arg * ClipTicksPerSecond(scene.mAnimations[currentAnimation + 1])) :
           call.arg * ClipTicksPerSecond(scene.mAnimations[currentAnimation + 1])
               = k * ClipDuration(scene.mAnimations[currentAnimation + 1])
    /\ gBones # << >>

\* C11: the tick rate of an evaluation is the mTicksPerSecond of the clip
\* that is current when SetBoneTransformations is called, and 25 when that is
\* 0, whatever rate InitFromScene stored in Model::ticksPerSecond; the
\* animation time is the tick count at that rate, wrapped.
C11_RateOfActiveClip ==
    (call.op = "SetBoneTransformations" /\ call.evaluated
     /\ scene.mAnimations[currentAnimation + 1].mChannels # << >>) =>
        /\ call.ticksPerSecond =
               IF scene.mAnimations[currentAnimation + 1].mTicksPerSecond = 0
               THEN 25
               ELSE scene.mAnimations[currentAnimation + 1].mTicksPerSecond
        /\ animDuration > 0 =>
               \E k \in 0..(call.arg * call.ticksPerSecond) :
                   call.animationTime + k * animDuration =
                       call.arg * call.ticksPerSecond

\* clip 1, whose rate is 0, was evaluated at 25 ticks per second on a model
\* whose stored rate is the 2 of clip 0
C11_Witness ==
    /\ call.op = "SetBoneTransformations"
    /\ call.evaluated
    /\ failure = "none"
    /\ currentAnimation = 1
    /\ scene.mAnimations[2].mTicksPerSecond = 0
    /\ call.ticksPerSecond = 25
    /\ ticksPerSecond = 2
    /\ call.arg = 1
    /\ call.animationTime = 1

\* C12: a track of exactly one key yields the value of that key, whatever the
\* animation time (in range, beyond the key, not a number) and however many
\* keys the two other tracks of the channel have; no bracket search runs, so
\* none of its assertions can fail.
C12_SingleKeyVerbatim ==
    track.evaluated =>
        /\ Len(scene.mAnimations[1].mChannels[1].mPositionKeys) = 1 =>
               /\ track.position.fail = "none"
               /\ track.position.out =
                      << scene.mAnimations[1].mChannels[1].mPositionKeys[1].mValue, 1 >>
        /\ Len(scene.mAnimations[1].mChannels[1].mRotationKeys) = 1 =>
               /\ track.rotation.fail = "none"
               /\ track.rotation.out =
                      << scene.mAnimations[1].mChannels[1].mRotationKeys[1].mValue,
                         scene.mAnimations[1].mChannels[1].mRotationKeys[1].mValue,
                         0, 1 >>
        /\ Len(scene.mAnimations[1].mChannels[1].mScalingKeys) = 1 =>
               /\ track.scaling.fail = "none"
               /\ track.scaling.out =
                      << scene.mAnimations[1].mChannels[1].mScalingKeys[1].mValue, 1 >>

\* a position track of one key, at time 2, read at time 3 beside a rotation
\* track of three keys whose own interpolation fails at that time
C12_Witness ==
    /\ track.evaluated
    /\ track.animationTime = 3
    /\ Len(scene.mAnimations[1].mChannels[1].mPositionKeys) = 1
    /\ scene.mAnimations[1].mChannels[1].mPositionKeys[1].mTime = 2
    /\ Len(scene.mAnimations[1].mChannels[1].mRotationKeys) = 3
    /\ track.rotation.fail = "assert(0)"
    /\ track.position.out = << 1, 1 >>

\* C13: on a position or scaling track, at a time t between two adjacent
\* keys (t0, v0) and (t1, v1), t0 <= t < t1, the result is v0 + f * (v1 - v0)
\* with f = (t - t0) / (t1 - t0); at the midpoint 2 * t = t0 + t1 it is
\* (v0 + v1) / 2.  The result is the rational out[1] / out[2].
C13_LinearBetweenKeys ==
    track.evaluated =>
        /\ \A i \in 1..(Len(scene.mAnimations[1].mChannels[1].mPositionKeys) - 1) :
               LET k0 == scene.mAnimations[1].mChannels[1].mPositionKeys[i]
                   k1 == scene.mAnimations[1].mChannels[1].mPositionKeys[i + 1]
               IN  (k0.mTime <= track.animationTime /\ track.animationTime < k1.mTime) =>
                       /\ track.position.fail = "none"
                       /\ track.position.out[2] > 0
                       /\ track.position.out[1] * (k1.mTime - k0.mTime) =
                              track.position.out[2] *
                                  (k0.mValue * (k1.mTime - k0.mTime)
                                   + (track.animationTime - k0.mTime)
                                         * (k1.mValue - k0.mValue))
                       /\ 2 * track.animationTime = k0.mTime + k1.mTime =>
                              2 * track.position.out[1] =
                                  track.position.out[2] * (k0.mValue + k1.mValue)
        /\ \A i \in 1..(Len(scene.mAnimations[1].mChannels[1].mScalingKeys) - 1) :
               LET k0 == scene.mAnimations[1].mChannels[1].mScalingKeys[i]
                   k1 == scene.mAnimations[1].mChannels[1].mScalingKeys[i + 1]
               IN  (k0.mTime <= track.animationTime /\ track.animationTime < k1.mTime) =>
                       /\ track.scaling.fail = "none"
                       /\ track.scaling.out[2] > 0
                       /\ track.scaling.out[1] * (k1.mTime - k0.mTime) =
                              track.scaling.out[2] *
                                  (k0.mValue * (k1.mTime - k0.mTime)
                                   + (track.animationTime - k0.mTime)
                                         * (k1.mValue - k0.mValue))
                       /\ 2 * track.animationTime = k0.mTime + k1.mTime =>
                              2 * track.scaling.out[1] =
                                  track.scaling.out[2] * (k0.mValue + k1.mValue)

\* time 2: the midpoint of the two scaling keys (1, 21) and (3, 23), and
\* two thirds of the way between the two position keys (0, 1) and (3, 3)
C13_Witness ==
    /\ track.evaluated
    /\ track.animationTime = 2
    /\ scene.mAnimations[1].mChannels[1].mScalingKeys =
           << [ mTime |-> 1, mValue |-> 21 ], [ mTime |-> 3, mValue |-> 23 ] >>
    /\ scene.mAnimations[1].mChannels[1].mPositionKeys =
           << [ mTime |-> 0, mValue |-> 1 ], [ mTime |-> 3, mValue |-> 3 ] >>
    /\ track.scaling = [ fail |-> "none", out |-> << 22, 1 >> ]
    /\ track.position = [ fail |-> "none", out |-> << 7, 3 >> ]

\* C14 as stated: after a failed import the model has no scene, no meshes
\* and no bones, and no call is made on it afterwards.
C14_NoCallAfterFailedImport ==
    (pc # "constructed" /\ scene.null) =>
        /\ meshes = << >>
        /\ bonesCount = 0
        /\ boneMapping = << >>
        /\ call.op = "LoadModelFromFilename"

\* C15 as stated: SetBoneTransformations hands matrices to the shader only
\* when the scene has an animation, and what it hands over is then at least
\* one matrix and at most the 100 that gBones holds.
C15_UploadWithinCapacity ==
    call.op = "SetBoneTransformations" =>
        /\ ~HasAnimations(scene) => ~call.uploaded /\ ~call.evaluated
        /\ call.uploaded =>
               /\ HasAnimations(scene)
               /\ call.size >= 1
               /\ call.size <= 100

\* C16 as stated: a texture whose file cannot be read is reported and left
\* out: no Texture with its path is in a texture list or in loadedTextures.
C16_MissingTextureOmitted ==
    /\ \A i \in DOMAIN textures : textures[i].Path \in readable
    /\ \A j \in DOMAIN loadedTextures : loadedTextures[j].Path \in readable
    /\ \A k \in DOMAIN cout : cout[k] \notin readable

\* C17 as stated: with a current clip that has no channels the evaluation
\* at time 0 completes, and globalInverseTransform times the global
\* transformation of the root node, which is the static transformation of
\* that node, is the identity.
C17_BindPoseRoundTrip ==
    (/\ call.op = "SetBoneTransformations"
     /\ call.evaluated
     /\ call.arg = 0
     /\ scene.mAnimations[currentAnimation + 1].mChannels = << >>) =>
        /\ failure = "none"
        /\ NodeTransformation(scene.mAnimations[currentAnimation + 1], 0,
                              scene.nodes, 1) = [ fail |-> "none", m |-> NodeM(1) ]
        /\ Mul(globalInverseTransform, Mul(Identity, NodeM(1))) = Identity

\* C18: on each track the search gives the smallest key index i (from 0)
\* with time < key[i + 1].time, looking at the keys of that track only; for
\* a time from the first key time up to, not including, the last one it
\* succeeds, with key[i].time <= time < key[i + 1].time and i + 1 below the
\* number of keys.
C18_BracketSearch ==
    track.evaluated =>
        \A tr \in { << scene.mAnimations[1].mChannels[1].mPositionKeys,
                        track.positionIndex >>,
                     << scene.mAnimations[1].mChannels[1].mRotationKeys,
                        track.rotationIndex >>,
                     << scene.mAnimations[1].mChannels[1].mScalingKeys,
                        track.scalingIndex >> } :
            /\ tr[2].fail = "none" =>
                   /\ tr[2].index + 1 < Len(tr[1])
                   /\ track.animationTime # NaN
                   /\ track.animationTime < tr[1][tr[2].index + 2].mTime
                   /\ \A j \in 0..(tr[2].index - 1) :
                          ~(track.animationTime < tr[1][j + 2].mTime)
            /\ (/\ track.animationTime # NaN
                /\ tr[1][1].mTime <= track.animationTime
                /\ track.animationTime < tr[1][Len(tr[1])].mTime) =>
                   /\ tr[2].fail = "none"
                   /\ tr[1][tr[2].index + 1].mTime <= track.animationTime
                   /\ track.animationTime < tr[1][tr[2].index + 2].mTime

\* time 2 falls in the second bracket of the rotation keys at 0, 1, 3, in
\* the only bracket of the position keys at 0, 3 and in the second bracket
\* of the scaling keys at 1, 2, 3
C18_Witness ==
    /\ track.evaluated
    /\ track.animationTime = 2
    /\ Len(scene.mAnimations[1].mChannels[1].mPositionKeys) = 2
    /\ scene.mAnimations[1].mChannels[1].mPositionKeys[2].mTime = 3
    /\ Len(scene.mAnimations[1].mChannels[1].mRotationKeys) = 3
    /\ scene.mAnimations[1].mChannels[1].mRotationKeys[2].mTime = 1
    /\ Len(scene.mAnimations[1].mChannels[1].mScalingKeys) = 3
    /\ scene.mAnimations[1].mChannels[1].mScalingKeys[1].mTime = 1
    /\ track.positionIndex = [ fail |-> "none", index |-> 0 ]
    /\ track.rotationIndex = [ fail |-> "none", index |-> 1 ]
    /\ track.scalingIndex = [ fail |-> "none", index |-> 1 ]

\* C19: after an evaluation that completed, the FinalTransformation of every
\* bone whose name a node carries is globalInverseTransform * the global
\* transformation of that node * the BoneOffset of the bone, the global
\* transformation being the product, from the root down, of the local
\* transformations, and a local transformation being the interpolated
\* translation * rotation * scaling of the node's channel or, without a
\* channel, the static transformation of the node.  When several nodes carry
\* the name, the node is the one the walk visits last.
C19_HierarchyWalk ==
    (call.op = "SetBoneTransformations" /\ call.evaluated /\ failure = "none") =>
        \A name \in DOMAIN boneMapping :
            \A n \in DOMAIN scene.nodes :
                (/\ scene.nodes[n].mName = name
                 /\ \A m \in DOMAIN scene.nodes :
                        scene.nodes[m].mName = name => m <= n) =>
                    boneMatrices[boneMapping[name] + 1].FinalTransformation =
                        Mul(Mul(globalInverseTransform,
                                GlobalOf(scene.mAnimations[currentAnimation + 1],
                                         call.animationTime, scene.nodes, n)),
                            boneMatrices[boneMapping[name] + 1].BoneOffset)

\* bone "b" hangs below the animated node "a", evaluated between two keys:
\* its final transformation is translation, rotation and scaling of "a",
\* the static transformation of "b" and the offset of the bone
C19_Witness ==
    /\ call.op = "SetBoneTransformations"
    /\ call.evaluated
    /\ failure = "none"
    /\ scene.nodes = ChainTree
    /\ call.animationTime = 1
    /\ findNodeAnim(scene.mAnimations[currentAnimation + 1], "a") # 0
    /\ findNodeAnim(scene.mAnimations[currentAnimation + 1], "b") = 0
    /\ boneMatrices[boneMapping["b"] + 1].FinalTransformation =
           << TranslateM(<< 2, 1 >>)[1], RotateM(<< 11, 13, 1, 2 >>)[1],
              ScaleM(<< 22, 1 >>)[1], NodeM(3)[1], OffsetM(12)[1] >>

\* C20 as stated: after an evaluation that completed, every one of the
\* bonesCount entries handed back was written during that evaluation, by
\* exactly one node, and none is the all-zero matrix.
C20_EveryBoneWritten ==
    (call.op = "SetBoneTransformations" /\ call.evaluated /\ failure = "none") =>
        \A name \in DOMAIN boneMapping :
            /\ gBones[boneMapping[name] + 1] # Zero
            /\ EvaluateMarked(scene, currentAnimation, bonesCount, boneMapping,
                              boneMatrices, globalInverseTransform, animDuration,
                              call.animationTime, << << "mark", 0, 0, 0, 0 >> >>
                             ).transforms[boneMapping[name] + 1]
                   # << << "mark", 0, 0, 0, 0 >> >>
            /\ Cardinality({ n \in DOMAIN scene.nodes :
                                scene.nodes[n].mName = name }) = 1

\* C20, amended: an evaluation that completes overwrites the final
\* transformation of every bone whose name at least one node carries, with
\* a value that does not depend on what the entry held before; the entry of
\* a bone whose name no node carries is never written and stays the
\* all-zero matrix.
C20_BonesOfNodesWritten ==
    (call.op = "SetBoneTransformations" /\ call.evaluated /\ failure = "none") =>
        \A name \in DOMAIN boneMapping :
            IF \E n \in DOMAIN scene.nodes : scene.nodes[n].mName = name
            THEN /\ EvaluateMarked(scene, currentAnimation, bonesCount,
                                   boneMapping, boneMatrices,
                                   globalInverseTransform, animDuration,
                                   call.animationTime, << << "mark", 0, 0, 0, 0 >> >>
                                  ).transforms[boneMapping[name] + 1]
                        = gBones[boneMapping[name] + 1]
                 /\ gBones[boneMapping[name] + 1] =
                        boneMatrices[boneMapping[name] + 1].FinalTransformation
            ELSE /\ EvaluateMarked(scene, currentAnimation, bonesCount,
                                   boneMapping, boneMatrices,
                                   globalInverseTransform, animDuration,
                                   call.animationTime, << << "mark", 0, 0, 0, 0 >> >>
                                  ).transforms[boneMapping[name] + 1]
                        = << << "mark", 0, 0, 0, 0 >> >>
                 /\ gBones[boneMapping[name] + 1] = Zero

\* an evaluation on the tree with two nodes "a" and no node "b": the entry
\* of bone "a" is written, the entry of bone "b" is the all-zero matrix
C20_Witness ==
    /\ call.op = "SetBoneTransformations"
    /\ call.evaluated
    /\ failure = "none"
    /\ scene.nodes = TwinTree
    /\ call.arg = 1
    /\ bonesCount = 2
    /\ gBones[boneMapping["a"] + 1] # Zero
    /\ gBones[boneMapping["b"] + 1] = Zero

\* C21: evaluation keeps no state across calls: two calls of
\* SetBoneTransformations with the same time and the same selected clip
\* upload the same matrices, whatever was evaluated and selected between
\* them, and each upload is what boneTransform gives for its time and its
\* clip on the registry as mesh binding left it.
C21_Stateless ==
    /\ \A i \in DOMAIN uploads, j \in DOMAIN uploads :
           (uploads[i].clip = uploads[j].clip /\ uploads[i].time = uploads[j].time)
               => uploads[i].transforms = uploads[j].transforms
    /\ \A i \in DOMAIN uploads :
           \E r \in boneTransformOutcomes(scene, uploads[i].clip, bonesCount,
                                           boneMapping, AfterBinding(boneMatrices),
                                           globalInverseTransform, 0,
                                           uploads[i].time) :
               r.fail = "none" /\ r.transforms = uploads[i].transforms

\* a clip was evaluated, then the other clip with another result, then the
\* first clip again at the first time
C21_Witness ==
    /\ Len(uploads) = 3
    /\ uploads[3].clip = uploads[1].clip
    /\ uploads[3].time = uploads[1].time
    /\ uploads[2].clip # uploads[1].clip
    /\ uploads[2].transforms # uploads[1].transforms
    /\ uploads[1].transforms # << Zero, Zero >>

\* C22: after any frames of the render loop, with key 1 pressed or
\* released, currentAnimation of main.cpp equals currentAnimation of the
\* model, for every loaded scene, one without clips included; with n >= 1
\* clips the k-th accepted press selects clip k mod n.
C22_IndicesAgree ==
    /\ appCurrentAnimation = Uint(currentAnimation)
    /\ GetNumAnimations(scene) >= 1 =>
           currentAnimation = accepted % GetNumAnimations(scene)

\* C23: clip switching is edge-triggered.  A frame that reads key 1
\* released changes neither index; a frame that reads it pressed after a
\* frame that read it pressed changes neither index; a frame that reads it
\* pressed after a frame that read it released (or as the first frame)
\* advances once: it runs lines 138-143 once, and with n >= 1 clips the
\* model's clip becomes the next one modulo n.
C23_EdgeTriggered ==
    [][ call'.op = "ProcessInput" =>
          /\ key1'[2] = "GLFW_RELEASE" =>
                 UNCHANGED << currentAnimation, appCurrentAnimation, accepted >>
          /\ (key1'[1] = "GLFW_PRESS" /\ key1'[2] = "GLFW_PRESS") =>
                 UNCHANGED << currentAnimation, appCurrentAnimation, accepted >>
          /\ (key1'[1] = "GLFW_RELEASE" /\ key1'[2] = "GLFW_PRESS") =>
                 /\ accepted' = accepted + 1
                 /\ appCurrentAnimation' # appCurrentAnimation
                        \/ GetNumAnimations(scene) = 1
                 /\ GetNumAnimations(scene) >= 1 =>
                        currentAnimation' =
                            (currentAnimation + 1) % GetNumAnimations(scene) ]_vars

\* key 1 was down in the latest two frames and the only advance so far
\* moved a model of two clips to clip 1
C23_Witness ==
    /\ call.op = "ProcessInput"
    /\ key1 = << "GLFW_PRESS", "GLFW_PRESS" >>
    /\ accepted = 1
    /\ GetNumAnimations(scene) = 2
    /\ currentAnimation = 1
    /\ appCurrentAnimation = Uint(1)

====
